---- MODULE Spec2Model ----
(***************************************************************************)
(* The transcription pipeline of src/src/lib/transcription.ts:             *)
(*   retryOperation, convertTranscriptToSrt, formatSrtTime,                *)
(*   simulateTranscription, transcribeAudio, and the caller                *)
(*   handleFileSelected of the page component.                             *)
(*                                                                         *)
(* Strings are sequences: the empty string is << >>, a numeric string such *)
(* as "0.5" is the one-element sequence <<500>> of its value in            *)
(* milliseconds, a text is a sequence of tokens (words, marks, " ").  A    *)
(* rendered number is its sequence of decimal digits.                      *)
(***************************************************************************)
EXTENDS Integers, Sequences, FiniteSets, TLC

VARIABLES
  \* retryOperation's frame
  rpc, maxRetries, delay, attempt, lastError, retValue, thrown, slept,
  \* what retryOperation's operation was asked and answered
  invocations, rejections, opResult,
  \* transcribeAudio's frame
  pc, file, pollCount, jobComplete, transcriptionJob, pollError, error, fetched, result,
  \* what the provider was asked and answered during the run
  submits, queries, fetches, lastPoll, pollRaised, failedSeen, completedSeen, mediaFormat,
  \* handleFileSelected
  caller,
  \* convertTranscriptToSrt's frame
  cpc, transcriptData, i, index, currentLine, startTime, endTime, srtContent, returned,
  \* the item at which convertTranscriptToSrt last emitted a block (0: none yet)
  lastEmitAt,
  \* the browser's localStorage item 'transcriptionCache', and the clock Date.now() reads
  localStorage, now,
  \* what the cache was last asked to store under each fingerprint, and what the latest
  \* call of getCachedTranscription returned
  puts, got,
  \* formatSrtTime's argument and return value
  secondsIn, formatted,
  \* concurrent calls of transcribeAudio: the names each one made
  calls,
  \* how many more times a file has been selected after a run ended
  reruns,
  \* AudioUploader's state, the page's isProcessing, the calls of transcribeAudio that
  \* have not settled, and the files handed to onFileSelected so far
  selectedFile, isDragging, isProcessing, pending, handed

retryVars == <<rpc, maxRetries, delay, attempt, lastError, retValue, thrown, slept, invocations, rejections, opResult>>
runVars == <<pc, file, pollCount, jobComplete, transcriptionJob, pollError, error, fetched, result>>
envVars == <<submits, queries, fetches, lastPoll, pollRaised, failedSeen, completedSeen, mediaFormat>>
convVars == <<cpc, transcriptData, i, index, currentLine, startTime, endTime, srtContent, returned, lastEmitAt>>
cacheVars == <<localStorage, puts, got>>
fmtVars == <<secondsIn, formatted>>
\* what no step of a pipeline run touches
uiVars == <<selectedFile, isDragging, isProcessing, pending, handed>>
sideVars == <<now, puts, got, fmtVars, calls, reruns, uiVars>>
vars == <<retryVars, runVars, envVars, caller, convVars, localStorage, sideVars>>

----------------------------------------------------------------------------
(* Bounds of the model *)

\* largest maxRetries a stand-alone retryOperation is called with
MaxRetriesBound == 4
\* longest list of timed items handed to convertTranscriptToSrt
MaxItems == 3

(* Program constants *)

\* retryOperation's default maxRetries
DefaultMaxRetries == 3
\* retryOperation's default delay (ms)
DefaultDelay == 1000
\* const maxPolls = 60
maxPolls == 60
\* setTimeout(resolve, 5000) between polls
PollInterval == 5000
\* setTimeout(resolve, 2000) in simulateTranscription
SimulateDelay == 2000

----------------------------------------------------------------------------
(* Values *)

\* what a rejected provider call carries
Errors == {"E1", "E2"}
\* what a successful operation resolves to
Values == {"V1", "V2"}
\* the value of an unassigned `let`
Undefined == "undefined"

\* an Error object: its message is kind + detail
Err(kind, detail) == [kind |-> kind, detail |-> detail]
NoError == Err("none", "")

----------------------------------------------------------------------------
(* Strings *)

\* JavaScript truthiness of a string (or undefined): the empty one is falsy
Truthy(s) == s # << >>

\* parseFloat of a numeric string, in milliseconds
parseFloat(s) == s[1]

RECURSIVE Digits(_)
\* Number.prototype.toString(): the decimal digits of n >= 0
Digits(n) == IF n < 10 THEN <<n>> ELSE Digits(n \div 10) \o <<n % 10>>

RECURSIVE padStart(_, _)
\* String.prototype.padStart(w, '0')
padStart(ds, w) == IF Len(ds) >= w THEN ds ELSE padStart(<<0>> \o ds, w)

RECURSIVE trimEnd(_)
trimEnd(s) == IF s # << >> /\ s[Len(s)] = " " THEN trimEnd(SubSeq(s, 1, Len(s) - 1)) ELSE s

RECURSIVE trimStart(_)
trimStart(s) == IF s # << >> /\ s[1] = " " THEN trimStart(Tail(s)) ELSE s

\* String.prototype.trim()
trim(s) == trimStart(trimEnd(s))

----------------------------------------------------------------------------
(* formatSrtTime *)

\* The times t (ms) of this model for which the double nearest to t/1000 has a
\* fractional part f with f * 1000 < t % 1000 in IEEE-754 arithmetic, so that
\* Math.floor((seconds % 1) * 1000) is one less than the decimal's millisecond
\* part: 1.001 % 1 = 0.0009999999999998899.  Between 1.000 and 1.063 these are the odd
\* milliseconds; 61.001 is one more.  (0, 0.5, 5, 65.5, 300 and 3661.001 are exact.)
BinaryShort == {ms \in 1000..1063 : ms % 2 = 1} \cup {61001}

\* Math.floor((seconds % 1) * 1000)
FloorMillis(ms) == IF ms \in BinaryShort THEN (ms % 1000) - 1 ELSE ms % 1000

\* a rendered time HH:MM:SS,mmm
TimeString(hh, mm, ss, mmm) == [hh |-> hh, mm |-> mm, ss |-> ss, mmm |-> mmm]

formatSrtTime(ms) ==
  LET hours == ms \div 3600000
      minutes == (ms % 3600000) \div 60000
      secs == (ms % 60000) \div 1000
      milliseconds == FloorMillis(ms)
  IN TimeString(padStart(Digits(hours), 2), padStart(Digits(minutes), 2),
                padStart(Digits(secs), 2), padStart(Digits(milliseconds), 3))

----------------------------------------------------------------------------
(* convertTranscriptToSrt *)

\* one subtitle block "<index>\n<start> --> <end>\n<text>\n\n"
Block(idx, start, end, text) == [index |-> idx, start |-> start, end |-> end, text |-> text]

\* variant: the fixed window ending at 00:00:05,000
FixedWindowShort(fullText) ==
  <<Block(<<1>>, TimeString(<<0, 0>>, <<0, 0>>, <<0, 0>>, <<0, 0, 0>>),
          TimeString(<<0, 0>>, <<0, 0>>, <<0, 5>>, <<0, 0, 0>>), fullText)>>

\* "1\n00:00:00,000 --> 00:05:00,000\n" + fullText + "\n\n"
FixedWindow(fullText) ==
  <<Block(<<1>>, TimeString(<<0, 0>>, <<0, 0>>, <<0, 0>>, <<0, 0, 0>>),
          TimeString(<<0, 0>>, <<0, 5>>, <<0, 0>>, <<0, 0, 0>>), fullText)>>

\* the parsed transcript: results, results.transcripts, results.items
Transcript(hasResults, hasTranscripts, transcripts, hasItems, items) ==
  [hasResults |-> hasResults, hasTranscripts |-> hasTranscripts, transcripts |-> transcripts,
   hasItems |-> hasItems, items |-> items]

\* transcriptData.results.transcripts && transcriptData.results.transcripts.length > 0
HasFullText(td) == td.hasTranscripts /\ Len(td.transcripts) > 0

\* transcriptData.results.transcripts[0].transcript
FullText(td) == td.transcripts[1].transcript

\* the early returns before the walk
InvalidFormat(td) == ~td.hasResults \/ ~td.hasTranscripts
NoTimedItems(td) == HasFullText(td) /\ (~td.hasItems \/ Len(td.items) = 0)

\* const items = transcriptData.results.items || []
ItemsOf(td) == IF td.hasItems THEN td.items ELSE << >>

\* the locals of the walk
Walk(srt, idx, line, start, end) ==
  [srtContent |-> srt, index |-> idx, currentLine |-> line, startTime |-> start, endTime |-> end]

WalkInit == Walk(<< >>, 1, << >>, << >>, << >>)

\* variant: punctuation appended without trimming the line first
AccumulateSpaced(w, item) ==
  IF item.type = "pronunciation"
  THEN [w EXCEPT !.startTime = IF w.currentLine = << >> THEN item.start_time ELSE @,
                 !.currentLine = @ \o <<item.content, " ">>,
                 !.endTime = item.end_time]
  ELSE IF item.type = "punctuation"
  THEN [w EXCEPT !.currentLine = @ \o <<item.content>>]
  ELSE w

\* variant: endTime = item.end_time || endTime, an item without an end time keeps the old one
AccumulateKeepEnd(w, item) ==
  IF item.type = "pronunciation"
  THEN [w EXCEPT !.startTime = IF w.currentLine = << >> THEN item.start_time ELSE @,
                 !.currentLine = @ \o <<item.content, " ">>,
                 !.endTime = IF Truthy(item.end_time) THEN item.end_time ELSE @]
  ELSE IF item.type = "punctuation"
  THEN [w EXCEPT !.currentLine = trim(@) \o <<item.content>>]
  ELSE w

\* the item's effect on the current line: lines 122-131
Accumulate(w, item) ==
  IF item.type = "pronunciation"
  THEN [w EXCEPT !.startTime = IF w.currentLine = << >> THEN item.start_time ELSE @,
                 !.currentLine = @ \o <<item.content, " ">>,
                 !.endTime = item.end_time]
  ELSE IF item.type = "punctuation"
  THEN [w EXCEPT !.currentLine = trim(@) \o <<item.content>>]
  ELSE w

IsEndOfSentence(item) == item.type = "punctuation" /\ item.content \in {".", "?", "!"}

\* variant: a block is emitted without index++
EmitNoAdvance(w) ==
  IF Truthy(w.startTime) /\ Truthy(w.endTime)
  THEN [w EXCEPT !.srtContent = Append(@, Block(Digits(w.index),
                                                formatSrtTime(parseFloat(w.startTime)),
                                                formatSrtTime(parseFloat(w.endTime)),
                                                trim(w.currentLine))),
                 !.currentLine = << >>,
                 !.startTime = << >>]
  ELSE w

\* variant: the two times written in the other order
EmitSwapped(w) ==
  IF Truthy(w.startTime) /\ Truthy(w.endTime)
  THEN [w EXCEPT !.srtContent = Append(@, Block(Digits(w.index),
                                                formatSrtTime(parseFloat(w.endTime)),
                                                formatSrtTime(parseFloat(w.startTime)),
                                                trim(w.currentLine))),
                 !.index = @ + 1,
                 !.currentLine = << >>,
                 !.startTime = << >>]
  ELSE w

\* the body of if (isEndOfSentence || isLastItem): emit a block if both times are set
Emit(w) ==
  IF Truthy(w.startTime) /\ Truthy(w.endTime)
  THEN [w EXCEPT !.srtContent = Append(@, Block(Digits(w.index),
                                                formatSrtTime(parseFloat(w.startTime)),
                                                formatSrtTime(parseFloat(w.endTime)),
                                                trim(w.currentLine))),
                 !.index = @ + 1,
                 !.currentLine = << >>,
                 !.startTime = << >>]
  ELSE w

\* one iteration of the for loop
WalkStep(w, item, isLastItem) ==
  LET a == Accumulate(w, item)
  IN IF IsEndOfSentence(item) \/ isLastItem THEN Emit(a) ELSE a

RECURSIVE WalkFrom(_, _, _)
\* the for loop from iteration k (1-based) on
WalkFrom(items, k, w) ==
  IF k > Len(items) THEN w
  ELSE WalkFrom(items, k + 1, WalkStep(w, items[k], k = Len(items)))

\* variant: the fixed-window block is appended whether or not a block was emitted
AfterWalkAlways(td, srt) ==
  IF HasFullText(td) THEN srt \o FixedWindow(FullText(td)) ELSE srt

\* the fallback after the walk
AfterWalk(td, srt) == IF srt = << >> /\ HasFullText(td) THEN FixedWindow(FullText(td)) ELSE srt

convertTranscriptToSrt(td) ==
  IF InvalidFormat(td) THEN << >>
  ELSE IF NoTimedItems(td) THEN FixedWindow(FullText(td))
  ELSE AfterWalk(td, WalkFrom(ItemsOf(td), 1, WalkInit).srtContent)

----------------------------------------------------------------------------
(* The result object *)

\* a rendered duration minutes:seconds
DurationString(minutes, seconds) == [minutes |-> minutes, seconds |-> seconds]

\* TranscribeResult; rawTranscriptData is << >> when the field is not set
TranscribeResult(srt, duration, raw) ==
  [srtContent |-> srt, duration |-> duration, rawTranscriptData |-> raw]

RECURSIVE LastEndFrom(_, _, _)
\* variant: every item that carries an end time overwrites maxEndTime
LastEndFrom(items, k, maxEndTime) ==
  IF k > Len(items) THEN maxEndTime
  ELSE LastEndFrom(items, k + 1,
         IF Truthy(items[k].end_time) THEN parseFloat(items[k].end_time) ELSE maxEndTime)

RECURSIVE MaxEndFrom(_, _, _)
\* items.forEach: the largest parseFloat(item.end_time) over the items that carry one
MaxEndFrom(items, k, maxEndTime) ==
  IF k > Len(items) THEN maxEndTime
  ELSE MaxEndFrom(items, k + 1,
         IF Truthy(items[k].end_time) /\ parseFloat(items[k].end_time) > maxEndTime
         THEN parseFloat(items[k].end_time) ELSE maxEndTime)

\* let maxEndTime = 0; if (results && results.items) ...
MaxEndTime(td) == IF td.hasResults /\ td.hasItems THEN MaxEndFrom(td.items, 1, 0) ELSE 0

\* `${minutes}:${seconds.toString().padStart(2, '0')}`
DurationOf(td) ==
  LET minutes == MaxEndTime(td) \div 60000
      seconds == (MaxEndTime(td) % 60000) \div 1000
  IN DurationString(Digits(minutes), padStart(Digits(seconds), 2))

\* the value transcribeAudio returns on the real path
RealResult(td) == TranscribeResult(convertTranscriptToSrt(td), DurationOf(td), <<td>>)

\* file.name.replace(/\.[^/.]+$/, ""): a name is a sequence of tokens, "." its own token
StripExtension(name) ==
  IF Len(name) >= 2 /\ name[Len(name) - 1] = "." /\ name[Len(name)] # "."
  THEN SubSeq(name, 1, Len(name) - 2) ELSE name

\* variant: a template of two blocks and duration 0:10
simulateTwoBlocks(f) ==
  TranscribeResult(
    <<Block(<<1>>, TimeString(<<0, 0>>, <<0, 0>>, <<0, 0>>, <<0, 0, 0>>),
            TimeString(<<0, 0>>, <<0, 0>>, <<0, 5>>, <<0, 0, 0>>),
            <<"This is a simulated transcription for ">> \o StripExtension(f.name) \o <<".">>),
      Block(<<2>>, TimeString(<<0, 0>>, <<0, 0>>, <<0, 5>>, <<5, 0, 0>>),
            TimeString(<<0, 0>>, <<0, 0>>, <<1, 0>>, <<0, 0, 0>>),
            <<"The actual transcription service encountered an error.">>)>>,
    DurationString(<<0>>, <<1, 0>>), << >>)

\* what simulateTranscription resolves to
simulateTranscription(f) ==
  TranscribeResult(
    <<Block(<<1>>, TimeString(<<0, 0>>, <<0, 0>>, <<0, 0>>, <<0, 0, 0>>),
            TimeString(<<0, 0>>, <<0, 0>>, <<0, 5>>, <<0, 0, 0>>),
            <<"This is a simulated transcription for ">> \o StripExtension(f.name) \o <<".">>),
      Block(<<2>>, TimeString(<<0, 0>>, <<0, 0>>, <<0, 5>>, <<5, 0, 0>>),
            TimeString(<<0, 0>>, <<0, 0>>, <<1, 0>>, <<0, 0, 0>>),
            <<"The actual transcription service encountered an error.">>),
      Block(<<3>>, TimeString(<<0, 0>>, <<0, 0>>, <<1, 0>>, <<5, 0, 0>>),
            TimeString(<<0, 0>>, <<0, 0>>, <<1, 5>>, <<0, 0, 0>>),
            <<"Please check your AWS credentials and try again.">>)>>,
    DurationString(<<0>>, <<1, 5>>), << >>)

----------------------------------------------------------------------------
(* retryOperation *)

\* variant: the loop's condition cutting the last attempt off
LoopEntersShort(n, max) == n < max

\* variant: the loop's condition allowing one attempt more
LoopEntersOneMore(n, max) == n <= max + 1

\* for (...; attempt <= maxRetries; ...)
LoopEnters(n, max) == n <= max

\* if (attempt < maxRetries)
ShouldBackoff(n, max) == n < max

\* variant: the same delay before every retry
BackoffDelayFlat(d, n) == d

\* setTimeout(resolve, delay * attempt)
BackoffDelay(d, n) == d * n

\* variant: a catch that keeps the first error, lastError = lastError ?? error
KeepFirstError(prev, e) == IF prev = Undefined THEN e ELSE prev

\* lastError = error
CaughtError(prev, e) == e

\* retryOperation(operation, m, d) is called: the loop starts and, if it is entered,
\* operation() is invoked and awaited
RetryCall(m, d) ==
  /\ maxRetries' = m
  /\ delay' = d
  /\ attempt' = 1
  /\ lastError' = Undefined
  /\ opResult' = Undefined
  /\ rejections' = rejections
  /\ retValue' = "none"
  /\ slept' = slept
  /\ IF LoopEnters(1, m)
     THEN rpc' = "awaiting" /\ invocations' = invocations + 1 /\ thrown' = "none"
     ELSE rpc' = "thrown" /\ invocations' = invocations /\ thrown' = Undefined

\* the awaited operation() resolves: return its value
OperationResolves(v) ==
  /\ rpc = "awaiting"
  /\ rpc' = "returned"
  /\ retValue' = v
  /\ opResult' = v
  /\ UNCHANGED <<maxRetries, delay, attempt, lastError, invocations, rejections, thrown, slept>>

\* the awaited operation() rejects with e: record it, then back off, retry at once
\* or leave the loop and throw lastError
OperationRejects(e) ==
  /\ rpc = "awaiting"
  /\ opResult' = e
  /\ rejections' = rejections + 1
  /\ lastError' = CaughtError(lastError, e)
  /\ UNCHANGED <<maxRetries, delay, retValue, slept>>
  /\ IF ShouldBackoff(attempt, maxRetries)
     THEN rpc' = "sleeping" /\ UNCHANGED <<attempt, invocations, thrown>>
     ELSE /\ attempt' = attempt + 1
          /\ IF LoopEnters(attempt + 1, maxRetries)
             THEN rpc' = "awaiting" /\ invocations' = invocations + 1 /\ thrown' = thrown
             ELSE rpc' = "thrown" /\ invocations' = invocations /\ thrown' = lastError'

\* the backoff timer fires: next iteration
BackoffElapses ==
  /\ rpc = "sleeping"
  /\ slept' = slept + BackoffDelay(delay, attempt)
  /\ attempt' = attempt + 1
  /\ UNCHANGED <<maxRetries, delay, lastError, opResult, rejections, retValue>>
  /\ IF LoopEnters(attempt + 1, maxRetries)
     THEN rpc' = "awaiting" /\ invocations' = invocations + 1 /\ thrown' = thrown
     ELSE rpc' = "thrown" /\ invocations' = invocations /\ thrown' = lastError

----------------------------------------------------------------------------
(* The provider's answers *)

\* File objects handed to transcribeAudio
Files == {[name |-> <<"talk", ".", "MP3">>, content |-> "A"], [name |-> <<"talk">>, content |-> "B"]}

\* String.prototype.toLowerCase() on the tokens of this model
toLowerCase(t) == IF t = "MP3" THEN "mp3" ELSE t

\* name.split('.').pop(): what follows the last "." of the name, the whole name when it
\* has none (a name is a sequence of tokens, "." its own token, so that the last
\* segment is the last token unless that is a ".")
LastSegment(name) ==
  IF name = << >> \/ name[Len(name)] = "." THEN << >> ELSE <<name[Len(name)]>>

\* MediaFormat: file.name.split('.').pop()?.toLowerCase() || 'mp3'
MediaFormat(name) ==
  IF Truthy(LastSegment(name)) THEN <<toLowerCase(LastSegment(name)[1])>> ELSE <<"mp3">>

\* TranscriptionJob as getTranscriptionJob reports it
Job(status, uri, reason) == [status |-> status, uri |-> uri, reason |-> reason]

\* let transcriptionJob; (also a response without a TranscriptionJob)
NoJob == Job("undefined", "", "")

OutputUri == "https://s3.us-east-1.amazonaws.com/bucket/job.json"

\* new URL(transcriptUri) does not throw
ValidUrl(uri) == uri = OutputUri

JobAnswers ==
  { Job("QUEUED", "", ""), Job("IN_PROGRESS", "", ""),
    Job("FAILED", "", "R1"), Job("FAILED", "", "R2"),
    Job("COMPLETED", OutputUri, ""), Job("COMPLETED", "", ""), Job("COMPLETED", "not a url", ""),
    NoJob }

Pronunciation(content, start, end) ==
  [type |-> "pronunciation", content |-> content, start_time |-> start, end_time |-> end]

Punctuation(content) ==
  [type |-> "punctuation", content |-> content, start_time |-> << >>, end_time |-> << >>]

\* { results: { transcripts: [{ transcript }], items } }
Timed(fullText, items) == Transcript(TRUE, TRUE, <<[transcript |-> fullText]>>, TRUE, items)

HelloTranscript ==
  Timed(<<"Hello", ".">>, <<Pronunciation("Hello", <<0>>, <<500>>), Punctuation(".")>>)

\* a JSON document without results
NoResults == Transcript(FALSE, FALSE, << >>, FALSE, << >>)

\* the transcripts the artifact may parse to
WellFormed ==
  { HelloTranscript,
    Timed(<<"Hello", " ", "world", "?">>,
          <<Pronunciation("Hello", <<0>>, <<500>>), Pronunciation("world", <<500>>, <<61001>>),
            Punctuation("?")>>),
    Timed(<<"world", " ", "Hello">>,
          <<Pronunciation("world", <<61001>>, <<65500>>), Pronunciation("Hello", <<0>>, <<500>>),
            Pronunciation("Hello", <<500>>, << >>)>>),
    Timed(<<"Hello">>, << >>),
    Transcript(TRUE, TRUE, << >>, TRUE, << >>) }

\* the body of the fetched object: json is "object" when JSON.parse gives an object,
\* "null" when it gives null, "invalid" when it throws
Body(json, data) == [json |-> json, data |-> data]

NoBody == Body("none", NoResults)

Bodies ==
  {Body("object", td) : td \in WellFormed \cup {NoResults}}
    \cup {Body("null", NoResults), Body("invalid", NoResults)}

----------------------------------------------------------------------------
(* The cache of transcription results *)

\* 24 * 60 * 60 * 1000
CacheTtl == 24 * 60 * 60 * 1000

\* generateFileHash: the SHA-256 digest of the file's bytes, in hex
generateFileHash(f) == [sha256 |-> f.content]

\* { result, timestamp }
Entry(r, timestamp) == [result |-> r, timestamp |-> timestamp]

\* JSON.parse(localStorage.getItem('transcriptionCache') || '{}'): an object is a
\* function on its keys, the item is << >> while it was never set
ParseCache(ls) == IF Truthy(ls) THEN ls[1] ELSE [h \in {} |-> << >>]

\* cache[fileHash]: << >> is undefined
Lookup(cache, fileHash) == IF fileHash \in DOMAIN cache THEN <<cache[fileHash]>> ELSE << >>

\* variant: an entry that is less than 24 hours old is kept, put-if-absent
cacheTranscriptionResultIfStale(ls, fileHash, r, t) ==
  LET cache == ParseCache(ls)
      entry == Lookup(cache, fileHash)
  IN IF Truthy(entry) /\ t - entry[1].timestamp < 24 * 60 * 60 * 1000
     THEN <<cache>>
     ELSE <<[h \in DOMAIN cache \cup {fileHash} |->
              IF h = fileHash THEN Entry(r, t) ELSE cache[h]]>>

\* the item after cacheTranscriptionResult(fileHash, result) at time t
cacheTranscriptionResult(ls, fileHash, r, t) ==
  LET cache == ParseCache(ls)
  IN <<[h \in DOMAIN cache \cup {fileHash} |->
         IF h = fileHash THEN Entry(r, t) ELSE cache[h]]>>

\* variant: an entry is still served at exactly 24 hours
FreshInclusive(t, timestamp) == t - timestamp <= CacheTtl

\* Date.now() - entry.timestamp < 24 * 60 * 60 * 1000
Fresh(t, timestamp) == t - timestamp < CacheTtl

\* variant: getCachedTranscription deletes the entry it finds expired and writes the
\* item back
StoreAfterGetPurged(ls, fileHash, t) ==
  LET cache == ParseCache(ls)
      entry == Lookup(cache, fileHash)
  IN IF Truthy(entry) /\ ~Fresh(t, entry[1].timestamp)
     THEN <<[h \in DOMAIN cache \ {fileHash} |-> cache[h]]>>
     ELSE ls

\* the item after getCachedTranscription(fileHash) at time t: the function calls
\* getItem only, never setItem or removeItem
StoreAfterGet(ls, fileHash, t) == ls

\* what getCachedTranscription(fileHash) returns at time t: << >> is null
getCachedTranscription(ls, fileHash, t) ==
  LET entry == Lookup(ParseCache(ls), fileHash)
  IN IF Truthy(entry) /\ Fresh(t, entry[1].timestamp) THEN <<entry[1].result>> ELSE << >>

----------------------------------------------------------------------------
(* transcribeAudio and its caller *)

\* the places of transcribeAudio's body that can throw
Places == {"upload", "submit", "poll", "timeout", "uri", "fetch"}

\* variant: a try block that starts after the job submission
InTryAfterSubmit(place) == place \in {"poll", "timeout", "uri", "fetch"}

\* the places inside try { ... } of transcribeAudio
InTry(place) == place \in Places

\* variant: an inner catch that rethrows a rejected status query
CaughtInLoopJobOnly(kind) == kind = "jobFailed"

\* what catch (pollError) inside the loop catches: the rejected status query and the
\* Error thrown on FAILED, both thrown inside the loop's try
CaughtInLoop(kind) == kind \in {"poll", "jobFailed"}

\* variant: the while condition allowing one poll more
LoopContinuesOneMore(complete, count) == ~complete /\ count <= maxPolls

\* while (!jobComplete && pollCount < maxPolls)
LoopContinues(complete, count) == ~complete /\ count < maxPolls

\* throw at a place of transcribeAudio: into its catch, which awaits
\* simulateTranscription's timer, or out to the caller's catch
Throw(place, err) ==
  /\ error' = err
  /\ result' = result
  /\ IF InTry(place)
     THEN pc' = "simulate" /\ caller' = caller
     ELSE pc' = "rejected" /\ caller' = "catch"
  /\ localStorage' = localStorage

\* variant: the returned result is put into the cache under the file's fingerprint
StoreOnReturnCached(ls, f, r, t) == cacheTranscriptionResult(ls, generateFileHash(f), r, t)

\* localStorage after transcribeAudio returns r: neither return statement, nor anything
\* before it, calls cacheTranscriptionResult
StoreOnReturn(ls, f, r, t) == ls

\* return from transcribeAudio: the caller's await resolves
Return(r) ==
  /\ pc' = "done"
  /\ result' = <<r>>
  /\ caller' = "then"
  /\ error' = error
  /\ localStorage' = StoreOnReturn(localStorage, file, r, now)

\* the await is left pending at place p
Goto(p) == pc' = p /\ UNCHANGED <<error, result, caller, localStorage>>

\* handleFileSelected(f): setIsProcessing(true), then transcribeAudio(f) runs up to
\* its first await, the upload inside retryOperation
HandleFileSelected(f) ==
  /\ caller = "idle" /\ pc = "idle"
  /\ caller' = "processing"
  /\ file' = f
  /\ RetryCall(DefaultMaxRetries, DefaultDelay)
  /\ pc' = "upload"
  /\ localStorage' = localStorage
  /\ UNCHANGED <<pollCount, jobComplete, transcriptionJob, pollError, error, fetched, result>>
  /\ UNCHANGED <<envVars, convVars, sideVars>>

\* s3.upload resolves: startTranscriptionJob is called
UploadResolves(v) ==
  /\ pc = "upload"
  /\ OperationResolves(v)
  /\ submits' = submits + 1
  /\ Goto("submit")
  /\ UNCHANGED <<file, pollCount, jobComplete, transcriptionJob, pollError, fetched>>
  /\ mediaFormat' = MediaFormat(file.name)
  /\ UNCHANGED <<queries, fetches, lastPoll, pollRaised, failedSeen, completedSeen, convVars, sideVars>>

\* variant: the upload's final failure is swallowed and the job is submitted all the same
UploadRejectsSwallowed(e) ==
  /\ pc = "upload"
  /\ OperationRejects(e)
  /\ IF rpc' = "thrown"
     THEN submits' = submits + 1 /\ mediaFormat' = MediaFormat(file.name) /\ Goto("submit")
     ELSE submits' = submits /\ mediaFormat' = mediaFormat /\ Goto("upload")
  /\ UNCHANGED <<file, pollCount, jobComplete, transcriptionJob, pollError, fetched>>
  /\ UNCHANGED <<queries, fetches, lastPoll, pollRaised, failedSeen, completedSeen, convVars, sideVars>>

\* s3.upload rejects: retryOperation backs off, or throws into transcribeAudio
UploadRejects(e) ==
  /\ pc = "upload"
  /\ OperationRejects(e)
  /\ IF rpc' = "thrown" THEN Throw("upload", Err("upload", thrown')) ELSE Goto("upload")
  /\ UNCHANGED <<file, pollCount, jobComplete, transcriptionJob, pollError, fetched>>
  /\ UNCHANGED <<envVars, convVars, sideVars>>

\* retryOperation's timer fires: s3.upload is called again
UploadBackoff ==
  /\ pc = "upload"
  /\ BackoffElapses
  /\ IF rpc' = "thrown" THEN Throw("upload", Err("upload", thrown')) ELSE Goto("upload")
  /\ UNCHANGED <<file, pollCount, jobComplete, transcriptionJob, pollError, fetched>>
  /\ UNCHANGED <<envVars, convVars, sideVars>>

\* startTranscriptionJob resolves: the polling loop is entered and waits
SubmitResolves ==
  /\ pc = "submit"
  /\ pollCount' = 0
  /\ jobComplete' = FALSE
  /\ IF LoopContinues(FALSE, 0) THEN Goto("pollWait") ELSE Throw("timeout", Err("timeout", ""))
  /\ UNCHANGED <<file, transcriptionJob, pollError, fetched>>
  /\ UNCHANGED <<retryVars, envVars, convVars, sideVars>>

\* startTranscriptionJob rejects
SubmitRejects(e) ==
  /\ pc = "submit"
  /\ Throw("submit", Err("submit", e))
  /\ UNCHANGED <<file, pollCount, jobComplete, transcriptionJob, pollError, fetched>>
  /\ UNCHANGED <<retryVars, envVars, convVars, sideVars>>

\* the 5 s timer fires: pollCount++, getTranscriptionJob is called
PollTimer ==
  /\ pc = "pollWait"
  /\ pollCount' = pollCount + 1
  /\ queries' = queries + 1
  /\ slept' = slept + PollInterval
  /\ Goto("poll")
  /\ UNCHANGED <<file, jobComplete, transcriptionJob, pollError, fetched>>
  /\ UNCHANGED <<rpc, maxRetries, delay, attempt, lastError, retValue, thrown, invocations, rejections, opResult>>
  /\ UNCHANGED <<submits, fetches, lastPoll, pollRaised, failedSeen, completedSeen, mediaFormat, convVars, sideVars>>

\* after the loop's try/catch: next iteration, or the code after the loop up to the
\* getObject call
AfterPoll(complete, job) ==
  IF LoopContinues(complete, pollCount)
  THEN Goto("pollWait") /\ fetches' = fetches
  ELSE IF ~complete
  THEN Throw("timeout", Err("timeout", "")) /\ fetches' = fetches
  ELSE IF job.uri = ""
  THEN Throw("uri", Err("noUri", "")) /\ fetches' = fetches
  ELSE IF ValidUrl(job.uri)
  THEN Goto("fetch") /\ fetches' = fetches + 1
  ELSE Throw("fetch", Err("fetch", "Invalid URL")) /\ fetches' = fetches

\* getTranscriptionJob resolves with job
PollResolves(job) ==
  /\ pc = "poll"
  /\ transcriptionJob' = job
  /\ lastPoll' = job.status
  /\ failedSeen' = IF job.status = "FAILED" /\ failedSeen = NoJob THEN job ELSE failedSeen
  /\ completedSeen' = (completedSeen \/ job.status = "COMPLETED")
  /\ IF job.status = "FAILED" /\ ~CaughtInLoop("jobFailed")
     THEN /\ Throw("poll", Err("jobFailed", job.reason))
          /\ UNCHANGED <<jobComplete, pollError, fetches>>
     ELSE /\ jobComplete' = (jobComplete \/ job.status = "COMPLETED")
          /\ pollError' = IF job.status = "FAILED" THEN Err("jobFailed", job.reason) ELSE pollError
          /\ AfterPoll(jobComplete', job)
  /\ UNCHANGED <<file, pollCount, fetched>>
  /\ UNCHANGED <<retryVars, submits, queries, pollRaised, mediaFormat, convVars, sideVars>>

\* getTranscriptionJob rejects with e
PollRejects(e) ==
  /\ pc = "poll"
  /\ lastPoll' = "raised"
  /\ pollRaised' = TRUE
  /\ IF ~CaughtInLoop("poll")
     THEN Throw("poll", Err("poll", e)) /\ UNCHANGED <<pollError, fetches>>
     ELSE pollError' = Err("poll", e) /\ AfterPoll(jobComplete, transcriptionJob)
  /\ UNCHANGED <<file, pollCount, jobComplete, transcriptionJob, fetched>>
  /\ UNCHANGED <<retryVars, submits, queries, failedSeen, completedSeen, mediaFormat, convVars, sideVars>>

\* getObject resolves with body: parse, convert, compute the duration, return
FetchResolves(body) ==
  /\ pc = "fetch"
  /\ fetched' = body
  /\ IF body.json = "invalid" THEN Throw("fetch", Err("fetch", "SyntaxError"))
     ELSE IF body.json = "null" THEN Throw("fetch", Err("fetch", "TypeError"))
     ELSE Return(RealResult(body.data))
  /\ UNCHANGED <<file, pollCount, jobComplete, transcriptionJob, pollError>>
  /\ UNCHANGED <<retryVars, envVars, convVars, sideVars>>

\* getObject rejects with e
FetchRejects(e) ==
  /\ pc = "fetch"
  /\ Throw("fetch", Err("fetch", e))
  /\ UNCHANGED <<file, pollCount, jobComplete, transcriptionJob, pollError, fetched>>
  /\ UNCHANGED <<retryVars, envVars, convVars, sideVars>>

\* simulateTranscription's 2 s timer fires: the fallback result is returned
SimulateTimer ==
  /\ pc = "simulate"
  /\ slept' = slept + SimulateDelay
  /\ Return(simulateTranscription(file))
  /\ UNCHANGED <<file, pollCount, jobComplete, transcriptionJob, pollError, fetched>>
  /\ UNCHANGED <<rpc, maxRetries, delay, attempt, lastError, retValue, thrown, invocations, rejections, opResult>>
  /\ UNCHANGED <<envVars, convVars, sideVars>>

\* nothing was ever cached, and no cache call was made
NoCache == localStorage = << >> /\ now = 0 /\ puts = [h \in {} |-> << >>] /\ got = << >>

\* formatSrtTime is not being called on its own
NoFormat == secondsIn = 0 /\ formatted = << >>

\* no concurrent calls, no second selection
NoCalls == calls = << >> /\ reruns = 0

\* the uploader as it is mounted
NoUi ==
  /\ selectedFile = << >> /\ isDragging = FALSE /\ isProcessing = FALSE
  /\ pending = 0 /\ handed = << >>

\* the state of everything outside the three frames before anything has run
InitSide ==
  mediaFormat = << >> /\ lastEmitAt = 0 /\ NoCache /\ NoFormat /\ NoCalls /\ NoUi

\* the page before a file is selected
InitFrames ==
  /\ rpc = "idle" /\ maxRetries = 0 /\ delay = 0 /\ attempt = 0
  /\ lastError = Undefined /\ invocations = 0 /\ rejections = 0 /\ opResult = Undefined
  /\ retValue = "none" /\ thrown = "none" /\ slept = 0
  /\ pc = "idle" /\ file = [name |-> << >>, content |-> ""] /\ pollCount = 0 /\ jobComplete = FALSE
  /\ transcriptionJob = NoJob /\ pollError = NoError /\ error = NoError
  /\ fetched = NoBody /\ result = << >>
  /\ submits = 0 /\ queries = 0 /\ fetches = 0 /\ lastPoll = "none"
  /\ pollRaised = FALSE /\ failedSeen = NoJob /\ completedSeen = FALSE
  /\ caller = "idle"
  /\ cpc = "none" /\ transcriptData = NoResults /\ i = 0 /\ index = 0
  /\ currentLine = << >> /\ startTime = << >> /\ endTime = << >>
  /\ srtContent = << >> /\ returned = << >>

Init == InitFrames /\ InitSide

Next ==
  \/ \E f \in Files : HandleFileSelected(f)
  \/ UploadResolves("uploaded")
  \/ \E e \in Errors : UploadRejects(e)
  \/ UploadBackoff
  \/ SubmitResolves
  \/ \E e \in Errors : SubmitRejects(e)
  \/ PollTimer
  \/ \E job \in JobAnswers : PollResolves(job)
  \/ \E e \in Errors : PollRejects(e)
  \/ \E body \in Bodies : FetchResolves(body)
  \/ \E e \in Errors : FetchRejects(e)
  \/ SimulateTimer

Spec == Init /\ [][Next]_vars

----------------------------------------------------------------------------
(* retryOperation on its own, for every maxRetries, delay and outcome sequence *)

Delays == {DefaultDelay, 250}

\* everything but retryOperation's frame
restOfRetry == <<runVars, envVars, caller, convVars, localStorage, sideVars>>

InitRetry ==
  /\ rpc = "idle" /\ maxRetries = 0 /\ delay = 0 /\ attempt = 0
  /\ lastError = Undefined /\ invocations = 0 /\ rejections = 0 /\ opResult = Undefined
  /\ retValue = "none" /\ thrown = "none" /\ slept = 0
  /\ pc = "none" /\ file = [name |-> << >>, content |-> ""] /\ pollCount = 0 /\ jobComplete = FALSE
  /\ transcriptionJob = NoJob /\ pollError = NoError /\ error = NoError
  /\ fetched = NoBody /\ result = << >>
  /\ submits = 0 /\ queries = 0 /\ fetches = 0 /\ lastPoll = "none"
  /\ pollRaised = FALSE /\ failedSeen = NoJob /\ completedSeen = FALSE
  /\ caller = "none"
  /\ cpc = "none" /\ transcriptData = NoResults /\ i = 0 /\ index = 0
  /\ currentLine = << >> /\ startTime = << >> /\ endTime = << >>
  /\ srtContent = << >> /\ returned = << >>
  /\ InitSide

RetryCalled(m, d) ==
  /\ pc = "none" /\ rpc = "idle"
  /\ RetryCall(m, d)
  /\ UNCHANGED restOfRetry

OperationSucceeds(v) == pc = "none" /\ OperationResolves(v) /\ UNCHANGED restOfRetry

OperationFails(e) == pc = "none" /\ OperationRejects(e) /\ UNCHANGED restOfRetry

BackoffTimer == pc = "none" /\ BackoffElapses /\ UNCHANGED restOfRetry

NextRetry ==
  \/ \E m \in 0..MaxRetriesBound, d \in Delays : RetryCalled(m, d)
  \/ \E v \in Values : OperationSucceeds(v)
  \/ \E e \in Errors : OperationFails(e)
  \/ BackoffTimer

SpecRetry == InitRetry /\ [][NextRetry]_vars

----------------------------------------------------------------------------
(* convertTranscriptToSrt on its own, for every transcript up to MaxItems items *)

\* start_time / end_time: absent, "0.0", "1.001"
TimeStrings == {<< >>, <<0>>, <<1001>>}

Items ==
  {Pronunciation("Hello", s, e) : s \in TimeStrings, e \in TimeStrings}
    \cup {Punctuation(c) : c \in {".", ","}}

ItemLists == UNION {[1..n -> Items] : n \in 0..MaxItems}

\* results.transcripts: [], [{transcript: ""}], [{transcript: "Hello."}]
TranscriptLists == {<< >>, <<[transcript |-> << >>]>>, <<[transcript |-> <<"Hello", ".">>]>>}

Transcripts ==
  {NoResults, Transcript(TRUE, FALSE, << >>, FALSE, << >>)}
    \cup {Transcript(TRUE, TRUE, ts, FALSE, << >>) : ts \in TranscriptLists}
    \cup {Transcript(TRUE, TRUE, ts, TRUE, items) : ts \in TranscriptLists, items \in ItemLists}

restOfConv == <<retryVars, runVars, envVars, caller, localStorage, sideVars>>

InitSrt ==
  /\ rpc = "idle" /\ maxRetries = 0 /\ delay = 0 /\ attempt = 0
  /\ lastError = Undefined /\ invocations = 0 /\ rejections = 0 /\ opResult = Undefined
  /\ retValue = "none" /\ thrown = "none" /\ slept = 0
  /\ pc = "none" /\ file = [name |-> << >>, content |-> ""] /\ pollCount = 0 /\ jobComplete = FALSE
  /\ transcriptionJob = NoJob /\ pollError = NoError /\ error = NoError
  /\ fetched = NoBody /\ result = << >>
  /\ submits = 0 /\ queries = 0 /\ fetches = 0 /\ lastPoll = "none"
  /\ pollRaised = FALSE /\ failedSeen = NoJob /\ completedSeen = FALSE
  /\ caller = "none"
  /\ cpc = "called" /\ transcriptData \in Transcripts /\ i = 0 /\ index = 0
  /\ currentLine = << >> /\ startTime = << >> /\ endTime = << >>
  /\ srtContent = << >> /\ returned = << >>
  /\ InitSide

\* the code before the loop: the two early returns, or the locals' initial values
ConvertEnter ==
  /\ cpc = "called"
  /\ IF InvalidFormat(transcriptData)
     THEN /\ cpc' = "returned" /\ returned' = << << >> >>
          /\ UNCHANGED <<i, index, currentLine, startTime, endTime, srtContent, lastEmitAt>>
     ELSE IF NoTimedItems(transcriptData)
     THEN /\ cpc' = "returned" /\ returned' = <<FixedWindow(FullText(transcriptData))>>
          /\ UNCHANGED <<i, index, currentLine, startTime, endTime, srtContent, lastEmitAt>>
     ELSE /\ cpc' = "loop" /\ returned' = returned
          /\ i' = 0
          /\ index' = WalkInit.index
          /\ currentLine' = WalkInit.currentLine
          /\ startTime' = WalkInit.startTime
          /\ endTime' = WalkInit.endTime
          /\ srtContent' = WalkInit.srtContent
          /\ lastEmitAt' = 0
  /\ UNCHANGED <<transcriptData, restOfConv>>

\* one iteration of the for loop, on items[i]
LoopIteration ==
  /\ cpc = "loop"
  /\ i < Len(ItemsOf(transcriptData))
  /\ LET w == WalkStep(Walk(srtContent, index, currentLine, startTime, endTime),
                       ItemsOf(transcriptData)[i + 1],
                       i = Len(ItemsOf(transcriptData)) - 1)
     IN /\ srtContent' = w.srtContent
        /\ index' = w.index
        /\ currentLine' = w.currentLine
        /\ startTime' = w.startTime
        /\ endTime' = w.endTime
        /\ lastEmitAt' = IF Len(w.srtContent) > Len(srtContent) THEN i + 1 ELSE lastEmitAt
  /\ i' = i + 1
  /\ UNCHANGED <<cpc, transcriptData, returned, restOfConv>>

\* the loop is over: the fallback, and the return
ConvertReturn ==
  /\ cpc = "loop"
  /\ ~(i < Len(ItemsOf(transcriptData)))
  /\ cpc' = "returned"
  /\ returned' = <<AfterWalk(transcriptData, srtContent)>>
  /\ UNCHANGED <<transcriptData, i, index, currentLine, startTime, endTime, srtContent, lastEmitAt, restOfConv>>

NextSrt == ConvertEnter \/ LoopIteration \/ ConvertReturn

SpecSrt == InitSrt /\ [][NextSrt]_vars

\* the loop run step by step returns what convertTranscriptToSrt computes
StepwiseAgrees == cpc = "returned" => returned = <<convertTranscriptToSrt(transcriptData)>>

----------------------------------------------------------------------------
(* Properties of transcribeAudio (under Spec) *)

\* C1: transcribeAudio never raises to its caller: whatever the external calls do, no
\* throw leaves transcribeAudio, the catch branch of handleFileSelected is never taken,
\* every failure is on its way to the fallback, and a finished run has a result object.
C1_NeverRaises ==
  /\ pc # "rejected"
  /\ caller # "catch"
  /\ error # NoError => pc \in {"simulate", "done"}
  /\ pc = "done" => Len(result) = 1 /\ caller = "then"

\* a run whose upload failed on all attempts has resolved in the caller's then-branch
C1_Witness == pc = "done" /\ error.kind = "upload" /\ caller = "then" /\ Len(result) = 1

\* C2: once a status query has returned FAILED the run has left polling, and the error
\* that ends it is the JobFailed error carrying the provider's FailureReason.
C2_FailedLeavesPolling ==
  failedSeen # NoJob =>
    /\ pc \in {"simulate", "done"}
    /\ error = Err("jobFailed", failedSeen.reason)

\* C3: at most maxPolls status queries are made in a run; once maxPolls queries are
\* answered without a COMPLETED status the run has left polling with the timed-out
\* error, and no artifact fetch is made.
C3_PollingBudget ==
  /\ queries <= maxPolls
  /\ pollCount <= maxPolls
  /\ (queries = maxPolls /\ ~completedSeen /\ pc # "poll") =>
       /\ pc \in {"simulate", "done"}
       /\ error = Err("timeout", "")
       /\ fetches = 0

\* maxPolls queries, none of them raised, FAILED or COMPLETED, and the run ended timed out
C3_Witness ==
  /\ pc = "done" /\ queries = maxPolls /\ lastPoll = "IN_PROGRESS"
  /\ ~pollRaised /\ failedSeen = NoJob /\ ~completedSeen
  /\ error = Err("timeout", "")

\* C4: a status query that raises does not end the run: the loop goes on unless the
\* budget is used up (the raised query was counted: every query made is one pollCount),
\* the first COMPLETED status ends polling with no query after it, and the run then is
\* in retrieval: the fetch is made when the job carries a valid output URI, and no
\* timed-out or poll error ends the run.
C4_PollErrorsNotFatal ==
  /\ queries = pollCount
  /\ lastPoll = "raised" =>
       \/ pc \in {"pollWait", "poll"}
       \/ pollCount = maxPolls /\ pc \in {"simulate", "done"} /\ error = Err("timeout", "")
  /\ completedSeen =>
       /\ lastPoll = "COMPLETED"
       /\ pc \in {"fetch", "simulate", "done"}
       /\ error.kind \in {"none", "noUri", "fetch"}
       /\ fetches = IF ValidUrl(transcriptionJob.uri) THEN 1 ELSE 0

\* a query raised, and the last query of the budget returned COMPLETED: the fetch is pending
C4_Witness ==
  /\ pollRaised /\ completedSeen /\ queries = maxPolls
  /\ pc = "fetch" /\ fetches = 1

\* C6: whatever stage failed, the run returns the fallback: three blocks indexed 1, 2, 3,
\* the duration 0:15 and no raw transcript.
C6_FallbackResult ==
  (pc = "done" /\ error # NoError) =>
    /\ Len(result) = 1
    /\ Len(result[1].srtContent) = 3
    /\ \A k \in 1..3 : result[1].srtContent[k].index = <<k>>
    /\ result[1].duration = DurationString(<<0>>, <<1, 5>>)
    /\ result[1].rawTranscriptData = << >>

\* the upload failed three times and the run returned
C6_Witness == pc = "done" /\ error.kind = "upload" /\ rejections = 3 /\ Len(result) = 1

\* C7: when the artifact was fetched and parsed to a well-formed transcript, the run
\* returns the real result: the converter's output, the raw transcript, never the
\* fallback, whatever the number of polls; for [Hello 0.0-0.5, "."] the subtitle text is
\* the one block 1 / 00:00:00,000 --> 00:00:00,500 / Hello. and the duration is 0:00.
C7_RealResult ==
  (pc = "done" /\ fetched.json = "object" /\ fetched.data \in WellFormed) =>
    /\ error = NoError
    /\ Len(result) = 1
    /\ result[1].rawTranscriptData = <<fetched.data>>
    /\ result[1].srtContent = convertTranscriptToSrt(fetched.data)
    /\ result[1] # simulateTranscription(file)
    /\ fetched.data = HelloTranscript =>
         /\ result[1].srtContent =
              <<[index |-> <<1>>,
                 start |-> [hh |-> <<0, 0>>, mm |-> <<0, 0>>, ss |-> <<0, 0>>, mmm |-> <<0, 0, 0>>],
                 end |-> [hh |-> <<0, 0>>, mm |-> <<0, 0>>, ss |-> <<0, 0>>, mmm |-> <<5, 0, 0>>],
                 text |-> <<"Hello", ".">>]>>
         /\ result[1].duration = [minutes |-> <<0>>, seconds |-> <<0, 0>>]

\* the Hello transcript returned after the upload's third attempt and the last poll
C7_Witness ==
  /\ pc = "done" /\ fetched = Body("object", HelloTranscript)
  /\ invocations = 3 /\ queries = maxPolls /\ error = NoError

\* C8: the upload is called at most three times and escalates only after the third
\* failure; the job submission is called at most once, only after the upload resolved,
\* and its failure goes to the fallback with no status query.
C8_UploadRetriedSubmitOnce ==
  /\ invocations <= 3
  /\ submits <= 1
  /\ error.kind = "upload" => invocations = 3 /\ rejections = 3 /\ submits = 0
  /\ submits = 1 => rpc = "returned"
  /\ error.kind = "submit" =>
       /\ submits = 1 /\ queries = 0
       /\ pc \in {"simulate", "done"}

\* the upload succeeded on its third attempt and the submission failed
C8_Witness == error.kind = "submit" /\ invocations = 3 /\ rejections = 2 /\ pc = "done"

----------------------------------------------------------------------------
(* Properties of retryOperation (under SpecRetry) *)

\* C5: retryOperation invokes operation at most maxRetries times; it returns at the
\* first success with that attempt's value, after one invocation more than there were
\* failures; when every attempt fails it throws after exactly maxRetries invocations,
\* and what it throws is the error of the last attempt.
C5_RetryBounded ==
  /\ invocations <= maxRetries
  /\ rpc = "returned" =>
       /\ retValue = opResult /\ retValue \in Values
       /\ invocations = rejections + 1
  /\ rpc = "thrown" =>
       /\ invocations = maxRetries /\ rejections = maxRetries
       /\ thrown = opResult

\* two failures, then the third attempt's value is returned
C5_Witness ==
  /\ rpc = "returned" /\ maxRetries = 3 /\ rejections = 2 /\ invocations = 3
  /\ retValue = "V2"

\* every attempt failed, with different errors: the last one is thrown
C5_WitnessThrown ==
  /\ rpc = "thrown" /\ maxRetries = 3 /\ invocations = 3 /\ thrown = "E2"

----------------------------------------------------------------------------
(* Properties of convertTranscriptToSrt (under SpecSrt) *)

\* C9: the blocks emitted so far carry the indices 1..k in order and index is k + 1, at
\* every point of the walk (so index moves only with an emit), and the returned text's
\* blocks are indexed 1..k.
C9_DenseIndices ==
  /\ cpc = "loop" =>
       /\ index = Len(srtContent) + 1
       /\ \A k \in 1..Len(srtContent) : srtContent[k].index = Digits(k)
  /\ cpc = "returned" =>
       \A k \in 1..Len(returned[1]) : returned[1][k].index = Digits(k)

\* two blocks were emitted from a list of timed items
C9_Witness ==
  /\ cpc = "returned" /\ Len(ItemsOf(transcriptData)) > 0
  /\ Len(returned[1]) = 2

\* C10: with zero timed items (no items field, or an empty list) the converter returns
\* the single block 00:00:00,000 --> 00:05:00,000 holding the full text when
\* results.transcripts has a first entry, and the empty string when it has none.
C10_NoTimedItems ==
  (cpc = "returned" /\ Len(ItemsOf(transcriptData)) = 0) =>
    IF HasFullText(transcriptData)
    THEN returned[1] =
           <<[index |-> <<1>>,
              start |-> [hh |-> <<0, 0>>, mm |-> <<0, 0>>, ss |-> <<0, 0>>, mmm |-> <<0, 0, 0>>],
              end |-> [hh |-> <<0, 0>>, mm |-> <<0, 5>>, ss |-> <<0, 0>>, mmm |-> <<0, 0, 0>>],
              text |-> transcriptData.transcripts[1].transcript]>>
    ELSE returned[1] = << >>

\* a transcript with a full text and an empty item list was converted
C10_Witness ==
  /\ cpc = "returned" /\ transcriptData.hasItems /\ Len(transcriptData.items) = 0
  /\ HasFullText(transcriptData) /\ FullText(transcriptData) = <<"Hello", ".">>
  /\ Len(returned[1]) = 1

----------------------------------------------------------------------------
(* Timestamps of the emitted blocks *)

RECURSIVE DigitsValue(_)
\* the number a digit sequence renders
DigitsValue(ds) ==
  IF ds = << >> THEN 0 ELSE 10 * DigitsValue(SubSeq(ds, 1, Len(ds) - 1)) + ds[Len(ds)]

\* the time (ms) a rendered HH:MM:SS,mmm stands for
TimeValue(ts) ==
  3600000 * DigitsValue(ts.hh) + 60000 * DigitsValue(ts.mm)
    + 1000 * DigitsValue(ts.ss) + DigitsValue(ts.mmm)

\* the positions of the pronunciation items of a list
Pronunciations(items) == {k \in 1..Len(items) : items[k].type = "pronunciation"}

\* each pronunciation item carries both times and ends no earlier than it starts
OwnTimesOrdered(items) ==
  \A k \in Pronunciations(items) :
    /\ Truthy(items[k].start_time) /\ Truthy(items[k].end_time)
    /\ parseFloat(items[k].end_time) >= parseFloat(items[k].start_time)

\* no pronunciation item ends before it, or a pronunciation item before it in the
\* list, starts
TimeOrdered(items) ==
  \A j, k \in Pronunciations(items) :
    (j <= k /\ Truthy(items[j].start_time) /\ Truthy(items[k].end_time)) =>
      parseFloat(items[k].end_time) >= parseFloat(items[j].start_time)

\* every block ends no earlier than it starts
EndsAfterStarts(blocks) ==
  \A k \in 1..Len(blocks) : TimeValue(blocks[k].end) >= TimeValue(blocks[k].start)

\* C11 as stated: whenever each pronunciation item's own end time is not before its
\* own start time, every emitted block's end timestamp is not before its start
\* timestamp, in whatever order the items are listed.
C11_AnyOrder ==
  (cpc = "returned" /\ OwnTimesOrdered(ItemsOf(transcriptData))) =>
    EndsAfterStarts(returned[1])

\* C11, amended: whenever no pronunciation item ends before itself or an earlier item
\* of the list starts (the items are in time order), every emitted block's end
\* timestamp is not before its start timestamp.
C11_TimeOrdered ==
  /\ (cpc = "loop" /\ TimeOrdered(ItemsOf(transcriptData))) => EndsAfterStarts(srtContent)
  /\ (cpc = "returned" /\ TimeOrdered(ItemsOf(transcriptData))) =>
       EndsAfterStarts(returned[1])

\* a block running from 00:00:00,000 to 00:00:01,000 was emitted from items in time order
C11_Witness ==
  /\ cpc = "returned" /\ Len(ItemsOf(transcriptData)) > 0
  /\ TimeOrdered(ItemsOf(transcriptData))
  /\ \E k \in 1..Len(returned[1]) :
       TimeValue(returned[1][k].start) = 0 /\ TimeValue(returned[1][k].end) = 1000

----------------------------------------------------------------------------
(* The cache functions called on their own *)

\* the clock is followed for this many days
MaxDays == 2

\* no frame of the pipeline is active
Quiet ==
  /\ rpc = "idle" /\ maxRetries = 0 /\ delay = 0 /\ attempt = 0
  /\ lastError = Undefined /\ invocations = 0 /\ rejections = 0 /\ opResult = Undefined
  /\ retValue = "none" /\ thrown = "none" /\ slept = 0
  /\ pc = "none" /\ file = [name |-> << >>, content |-> ""] /\ pollCount = 0
  /\ jobComplete = FALSE
  /\ transcriptionJob = NoJob /\ pollError = NoError /\ error = NoError
  /\ fetched = NoBody /\ result = << >>
  /\ submits = 0 /\ queries = 0 /\ fetches = 0 /\ lastPoll = "none"
  /\ pollRaised = FALSE /\ failedSeen = NoJob /\ completedSeen = FALSE
  /\ mediaFormat = << >>
  /\ caller = "none"
  /\ cpc = "none" /\ transcriptData = NoResults /\ i = 0 /\ index = 0
  /\ currentLine = << >> /\ startTime = << >> /\ endTime = << >>
  /\ srtContent = << >> /\ returned = << >> /\ lastEmitAt = 0

\* the fingerprints of the files
Fingerprints == {generateFileHash(f) : f \in Files}

\* results handed to cacheTranscriptionResult
Results == {simulateTranscription(CHOOSE f \in Files : TRUE), RealResult(HelloTranscript)}

\* the readings of Date.now() that are followed: each whole day, 1 ms before and after
Instants ==
  {t \in {k * CacheTtl + e : k \in 0..MaxDays, e \in {-1, 0, 1}} : t >= 0}

restOfCache == <<retryVars, runVars, envVars, caller, convVars, fmtVars, calls, reruns, uiVars>>

InitCache ==
  /\ Quiet /\ NoFormat /\ NoCalls /\ NoUi
  /\ localStorage = << >> /\ now = 0
  /\ puts = [h \in Fingerprints |-> << >>] /\ got = << >>

\* what a put for h finds in the ledger: nothing, a put less than 24 hours old, or an
\* older one
Found(h) ==
  IF puts[h] = << >> THEN "nothing"
  ELSE IF now - puts[h][1].at < CacheTtl THEN "fresh" ELSE "expired"

\* cacheTranscriptionResult(h, r)
CachePut(h, r) ==
  /\ localStorage' = cacheTranscriptionResult(localStorage, h, r, now)
  /\ puts' = [puts EXCEPT ![h] = <<[result |-> r, at |-> now, found |-> Found(h)]>>]
  /\ got' = << >>
  /\ UNCHANGED <<now, restOfCache>>

\* getCachedTranscription(h)
CacheGet(h) ==
  /\ got' = <<[fileHash |-> h, value |-> getCachedTranscription(localStorage, h, now)]>>
  /\ localStorage' = StoreAfterGet(localStorage, h, now)
  /\ UNCHANGED <<now, puts, restOfCache>>

\* time passes
ClockAdvance(t) ==
  /\ t > now
  /\ now' = t
  /\ got' = << >>
  /\ UNCHANGED <<localStorage, puts, restOfCache>>

NextCache ==
  \/ \E h \in Fingerprints, r \in Results : CachePut(h, r)
  \/ \E h \in Fingerprints : CacheGet(h)
  \/ \E t \in Instants : ClockAdvance(t)

SpecCache == InitCache /\ [][NextCache]_vars

\* C12: getCachedTranscription returns the result last stored under the fingerprint
\* while less than 24 hours (86,400,000 ms) have passed since it was stored, and null
\* once 24 hours or more have passed or when nothing was stored under the fingerprint.
C12_CacheTtl ==
  got # << >> =>
    LET h == got[1].fileHash
    IN IF puts[h] # << >> /\ now - puts[h][1].at < 86400000
       THEN got[1].value = <<puts[h][1].result>>
       ELSE got[1].value = << >>

\* a result was stored and asked for exactly 24 hours later: null came back
C12_Witness ==
  /\ got # << >> /\ puts[got[1].fileHash] # << >>
  /\ now - puts[got[1].fileHash][1].at = 86400000
  /\ got[1].value = << >>

----------------------------------------------------------------------------
(* Calls of transcribeAudio that overlap: the names they make *)

\* how many calls of transcribeAudio are followed
MaxCalls == 2
\* the last reading of the millisecond clock that is followed
MaxClock == 2

Procs == 1..MaxCalls

\* variant: an object key made of the time alone
fileKeyOfTime(t, name) == <<"transcription-inputs/", t>>

\* `transcription-inputs/${Date.now()}-${file.name}`
fileKey(t, name) == <<"transcription-inputs/", t, "-">> \o name

\* `job-${Date.now()}`
jobName(t) == <<"job-", t>>

\* a call that has not started
IdleCall ==
  [at |-> "idle", file |-> [name |-> << >>, content |-> ""], fileKey |-> << >>, keyAt |-> 0,
   jobName |-> << >>, nameAt |-> 0]

restOfCalls ==
  <<retryVars, runVars, envVars, caller, convVars, localStorage, puts, got, fmtVars, reruns, uiVars>>

InitCalls ==
  /\ Quiet /\ NoFormat /\ NoCache /\ NoUi /\ reruns = 0
  /\ calls = [p \in Procs |-> IdleCall]

\* transcribeAudio(f) is called: the object key is made and the upload begins
CallStarts(p, f) ==
  /\ calls[p].at = "idle"
  /\ calls' = [calls EXCEPT ![p] = [@ EXCEPT !.at = "upload", !.file = f,
                                               !.fileKey = fileKey(now, f.name),
                                               !.keyAt = now]]
  /\ UNCHANGED <<now, restOfCalls>>

\* the call's upload has succeeded: the job name is made and the job is submitted
CallSubmits(p) ==
  /\ calls[p].at = "upload"
  /\ calls' = [calls EXCEPT ![p] = [@ EXCEPT !.at = "submitted",
                                               !.jobName = jobName(now),
                                               !.nameAt = now]]
  /\ UNCHANGED <<now, restOfCalls>>

\* the call's upload has failed for good, or its job is over: the call returns
CallReturns(p) ==
  /\ calls[p].at \in {"upload", "submitted"}
  /\ calls' = [calls EXCEPT ![p] = [@ EXCEPT !.at = "returned"]]
  /\ UNCHANGED <<now, restOfCalls>>

\* a millisecond passes
ClockTick ==
  /\ now < MaxClock
  /\ now' = now + 1
  /\ UNCHANGED <<calls, restOfCalls>>

NextCalls ==
  \/ \E p \in Procs, f \in Files : CallStarts(p, f)
  \/ \E p \in Procs : CallSubmits(p)
  \/ \E p \in Procs : CallReturns(p)
  \/ ClockTick

SpecCalls == InitCalls /\ [][NextCalls]_vars

\* the call has made an object key / a job name
HasKey(p) == calls[p].at # "idle"
HasJob(p) == calls[p].jobName # << >>

\* C13 as stated: any two job submissions carry different job names and any two uploads
\* different object keys, whatever the clock read.
C13_AlwaysDistinct ==
  \A p, q \in Procs :
    p # q =>
      /\ (HasJob(p) /\ HasJob(q)) => calls[p].jobName # calls[q].jobName
      /\ (HasKey(p) /\ HasKey(q)) => calls[p].fileKey # calls[q].fileKey

\* C13, amended: two job submissions carry different job names whenever the clock read
\* different milliseconds at the two submissions, and two uploads carry different
\* object keys whenever the clock read different milliseconds at the two starts or the
\* file names differ.
C13_DistinctAcrossMilliseconds ==
  \A p, q \in Procs :
    p # q =>
      /\ (HasJob(p) /\ HasJob(q) /\ calls[p].nameAt # calls[q].nameAt) =>
           calls[p].jobName # calls[q].jobName
      /\ (HasKey(p) /\ HasKey(q)
            /\ (calls[p].keyAt # calls[q].keyAt \/ calls[p].file.name # calls[q].file.name)) =>
           calls[p].fileKey # calls[q].fileKey

\* two calls started in the same millisecond on files of different names, and submitted
\* their jobs in different milliseconds
C13_Witness ==
  \E p, q \in Procs :
    /\ p # q /\ HasJob(p) /\ HasJob(q)
    /\ calls[p].keyAt = calls[q].keyAt /\ calls[p].file.name # calls[q].file.name
    /\ calls[p].nameAt # calls[q].nameAt

----------------------------------------------------------------------------
(* A file is selected again after a run has ended *)

\* how many times a file is selected again
MaxReruns == 1

\* the 'transcriptionCache' item when the page loads: it holds a result stored at time
\* 0 under the fingerprint of the first file, and nothing for the other file
Stores ==
  {cacheTranscriptionResult(<< >>, generateFileHash(f), RealResult(HelloTranscript), 0) :
     f \in {g \in Files : g.content = "A"}}

InitRuns ==
  /\ InitFrames
  /\ mediaFormat = << >> /\ lastEmitAt = 0 /\ NoFormat /\ NoCalls /\ NoUi
  /\ now = 0 /\ puts = [h \in {} |-> << >>] /\ got = << >>
  /\ localStorage \in Stores

\* handleFileSelected(f) after the previous run has ended (its finally has run):
\* transcribeAudio(f) starts afresh, up to its first await; what the provider was
\* asked is counted from this call on
SelectAgain(f) ==
  /\ caller \in {"then", "catch"}
  /\ reruns < MaxReruns
  /\ reruns' = reruns + 1
  /\ caller' = "processing"
  /\ file' = f
  /\ maxRetries' = DefaultMaxRetries /\ delay' = DefaultDelay /\ attempt' = 1
  /\ lastError' = Undefined /\ opResult' = Undefined /\ retValue' = "none"
  /\ thrown' = "none" /\ rpc' = "awaiting"
  /\ invocations' = 1 /\ rejections' = 0 /\ slept' = 0
  /\ pc' = "upload"
  /\ pollCount' = 0 /\ jobComplete' = FALSE /\ transcriptionJob' = NoJob
  /\ pollError' = NoError /\ error' = NoError /\ fetched' = NoBody /\ result' = << >>
  /\ submits' = 0 /\ queries' = 0 /\ fetches' = 0 /\ lastPoll' = "none"
  /\ pollRaised' = FALSE /\ failedSeen' = NoJob /\ completedSeen' = FALSE
  /\ mediaFormat' = << >>
  /\ UNCHANGED <<convVars, localStorage, now, puts, got, fmtVars, calls, uiVars>>

NextRuns == Next \/ \E f \in Files : SelectAgain(f)

SpecRuns == InitRuns /\ [][NextRuns]_vars

\* the item holds an entry for the file's fingerprint that is less than 24 hours old
HoldsFresh(ls, f) ==
  /\ ls # << >> /\ generateFileHash(f) \in DOMAIN ls[1]
  /\ now - ls[1][generateFileHash(f)].timestamp < 86400000

\* C14: no step of a run changes the 'transcriptionCache' item, and every run that has
\* returned, the first or a later one, with or without a fresh entry for its file in
\* the item, has called the upload, and has submitted one job unless the upload failed.
C14_CacheNotWired ==
  /\ [][localStorage' = localStorage]_vars
  /\ [](pc = "done" =>
          /\ invocations >= 1
          /\ (error.kind # "upload" => submits = 1)
          /\ (error.kind = "none" => fetches = 1))

\* a second run on a file whose fingerprint has a fresh entry in the item uploaded,
\* submitted, fetched and returned the converted transcript
C14_Witness ==
  /\ reruns = 1 /\ pc = "done" /\ HoldsFresh(localStorage, file)
  /\ invocations >= 1 /\ submits = 1 /\ fetches = 1 /\ error = NoError

----------------------------------------------------------------------------
(* formatSrtTime called on its own *)

\* the times (ms) formatSrtTime is called with
FormatTimes == (1000..1050) \cup {0, 500, 5000, 61001, 65500, 300000, 3661001}

restOfFormat ==
  <<retryVars, runVars, envVars, caller, convVars, cacheVars, now, calls, reruns, uiVars>>

InitFormat ==
  /\ Quiet /\ NoCache /\ NoCalls /\ NoUi
  /\ secondsIn \in FormatTimes /\ formatted = << >>

\* formatSrtTime(seconds) returns
FormatReturns ==
  /\ formatted = << >>
  /\ formatted' = <<formatSrtTime(secondsIn)>>
  /\ UNCHANGED <<secondsIn, restOfFormat>>

NextFormat == FormatReturns

SpecFormat == InitFormat /\ [][NextFormat]_vars

\* C15: formatSrtTime renders a time of t milliseconds as HH:MM:SS,mmm with
\* HH = floor(t / 3600 s), MM = floor((t mod 3600 s) / 60 s), SS = floor(t mod 60 s) and
\* mmm the millisecond part of t, padded to 2, 2, 2 and 3 digits; minutes and seconds
\* are below 60 and milliseconds below 1000.
C15_FormatSrtTime ==
  formatted # << >> =>
    /\ formatted[1].hh = padStart(Digits(secondsIn \div 3600000), 2)
    /\ formatted[1].mm = padStart(Digits((secondsIn % 3600000) \div 60000), 2)
    /\ formatted[1].ss = padStart(Digits((secondsIn % 60000) \div 1000), 2)
    /\ formatted[1].mmm = padStart(Digits(secondsIn % 1000), 3)
    /\ DigitsValue(formatted[1].mm) < 60 /\ DigitsValue(formatted[1].ss) < 60
    /\ DigitsValue(formatted[1].mmm) < 1000

----------------------------------------------------------------------------
(* The order of the external calls *)

\* C16: a job is submitted only after an upload attempt has succeeded, the job's status
\* is queried only after one submission that did not fail, the transcript is fetched
\* only after a status query answered COMPLETED; when the upload has failed three times
\* no job is submitted and nothing is queried or fetched; the fallback runs only after
\* a failure.
C16_PipelineOrder ==
  /\ submits >= 1 => (rpc = "returned" /\ opResult = "uploaded" /\ invocations >= 1)
  /\ queries >= 1 => (submits = 1 /\ error.kind \notin {"upload", "submit"})
  /\ fetches >= 1 => (queries >= 1 /\ completedSeen)
  /\ error.kind = "upload" =>
       (rejections = 3 /\ invocations = 3 /\ submits = 0 /\ queries = 0 /\ fetches = 0)
  /\ error.kind = "submit" => (queries = 0 /\ fetches = 0)
  /\ pc = "simulate" => error.kind # "none"
  /\ (pc = "done" /\ result[1].rawTranscriptData = << >>) => error.kind # "none"

\* the upload failed three times and the run ended with the fallback, no job submitted
C16_Witness ==
  /\ pc = "done" /\ error.kind = "upload" /\ rejections = 3
  /\ submits = 0 /\ queries = 0 /\ fetches = 0

----------------------------------------------------------------------------
(* Termination *)

\* every external call and every timer of a run eventually completes, one way or
\* another
SpecFair == Spec /\ WF_vars(Next)

\* C17: a run that has started eventually returns a result, after at most 3 upload
\* attempts, 1 job submission, 60 status queries and 1 fetch.
C17_Terminates ==
  /\ (caller = "processing") ~> (pc = "done" /\ result # << >>)
  /\ [](invocations <= 3 /\ submits <= 1 /\ queries <= 60 /\ fetches <= 1)

\* a run has returned after 60 status queries
C17_Witness == pc = "done" /\ result # << >> /\ queries = 60

----------------------------------------------------------------------------
(* The end time of an emitted block *)

\* the pronunciation items among items[from..to]
PronunciationsIn(items, from, to) == {k \in from..to : items[k].type = "pronunciation"}

\* the largest element of a non-empty set of positions
Last(S) == CHOOSE k \in S : \A j \in S : j <= k

\* C18: whenever the loop emits a block, a pronunciation item was accumulated since
\* the previous emit (or the start), and the block's end time is the end time of the
\* last such item, never one left over from before the previous emit.
C18_NoStaleEndTime ==
  [][(cpc = "loop" /\ Len(srtContent') > Len(srtContent)) =>
       LET items == ItemsOf(transcriptData)
           since == PronunciationsIn(items, lastEmitAt + 1, i + 1)
       IN /\ since # {}
          /\ Truthy(items[Last(since)].end_time)
          /\ srtContent'[Len(srtContent')].end =
               formatSrtTime(parseFloat(items[Last(since)].end_time))]_vars

\* a second block was emitted whose end time differs from the first block's
C18_Witness ==
  /\ cpc = "loop" /\ Len(srtContent) = 2 /\ lastEmitAt = i
  /\ srtContent[2].end # srtContent[1].end

----------------------------------------------------------------------------
(* The media format of the submitted job *)

\* the name has an extension: a "." with something after the last one
HasExtension(name) ==
  /\ \E k \in 1..Len(name) : name[k] = "."
  /\ name[Len(name)] # "."

\* C19: the MediaFormat of a submitted job is the file name's extension in lower case,
\* and 'mp3' when the name has no extension, a name without any "." included.
C19_MediaFormat ==
  submits >= 1 =>
    IF HasExtension(file.name)
    THEN mediaFormat = <<toLowerCase(file.name[Len(file.name)])>>
    ELSE mediaFormat = <<"mp3">>

----------------------------------------------------------------------------
(* The fallback after the walk *)

\* C20: after the walk over a non-empty item list, if no block was emitted and
\* results.transcripts has a first entry, the converter returns exactly the one block
\* 00:00:00,000 --> 00:05:00,000 holding that entry's text; if at least one block was
\* emitted it returns the emitted blocks and nothing more.
C20_FallbackAfterWalk ==
  (cpc = "returned" /\ Len(ItemsOf(transcriptData)) > 0
     /\ transcriptData.hasResults /\ transcriptData.hasTranscripts) =>
    IF srtContent # << >> THEN returned[1] = srtContent
    ELSE IF Len(transcriptData.transcripts) > 0
    THEN returned[1] =
           <<[index |-> <<1>>,
              start |-> [hh |-> <<0, 0>>, mm |-> <<0, 0>>, ss |-> <<0, 0>>, mmm |-> <<0, 0, 0>>],
              end |-> [hh |-> <<0, 0>>, mm |-> <<0, 5>>, ss |-> <<0, 0>>, mmm |-> <<0, 0, 0>>],
              text |-> transcriptData.transcripts[1].transcript]>>
    ELSE returned[1] = << >>

\* the walk over three items emitted nothing and the fixed-window block with the full
\* text was returned
C20_Witness ==
  /\ cpc = "returned" /\ Len(ItemsOf(transcriptData)) = 3 /\ i = 3
  /\ srtContent = << >>
  /\ Len(transcriptData.transcripts) > 0
  /\ transcriptData.transcripts[1].transcript = <<"Hello", ".">>
  /\ Len(returned[1]) = 1 /\ returned[1][1].text = <<"Hello", ".">>

----------------------------------------------------------------------------
(* The waits of retryOperation *)

\* the waits that are over: one after each failed attempt but the last of maxRetries,
\* the one after the latest failure still running while retryOperation sleeps
WaitsOver ==
  IF rpc = "sleeping" THEN rejections - 1
  ELSE IF rejections < maxRetries THEN rejections
  ELSE IF maxRetries > 0 THEN maxRetries - 1 ELSE 0

----------------------------------------------------------------------------
(* The duration of the real result *)

\* the end times (ms) the fetched transcript's items carry
EndTimes(td) ==
  IF td.hasResults /\ td.hasItems
  THEN {parseFloat(td.items[k].end_time) :
          k \in {j \in 1..Len(td.items) : td.items[j].end_time # << >>}}
  ELSE {}

\* the largest of a set of times, 0 for the empty set
Largest(S) == IF S = {} THEN 0 ELSE CHOOSE t \in S : \A u \in S : u <= t

\* C22: on the real path the duration is minutes:seconds of the largest end time among
\* the items, wherever in the list it stands (0 when no item carries one): minutes =
\* floor(max / 60 s) unpadded, seconds = floor(max mod 60 s) padded to 2 digits.
C22_Duration ==
  (pc = "done" /\ error = NoError) =>
    LET max == Largest(EndTimes(fetched.data))
    IN /\ DigitsValue(result[1].duration.minutes) = max \div 60000
       /\ DigitsValue(result[1].duration.seconds) = (max % 60000) \div 1000
       /\ Len(result[1].duration.seconds) = 2
       /\ result[1].duration.minutes = Digits(max \div 60000)

\* the largest end time, 65.5 s, stands first in the list and the last item carries
\* none: the duration is 1:05
C22_Witness ==
  /\ pc = "done" /\ error = NoError
  /\ Len(fetched.data.items) = 3
  /\ fetched.data.items[1].end_time = <<65500>> /\ fetched.data.items[3].end_time = << >>
  /\ result[1].duration = [minutes |-> <<1>>, seconds |-> <<0, 5>>]

----------------------------------------------------------------------------
(* What the cache functions do to the store *)

\* the store holds, under fingerprint h, the result and time of the latest put for h
HoldsLatestPut(h) ==
  Lookup(ParseCache(localStorage), h) = <<[result |-> puts[h][1].result,
                                           timestamp |-> puts[h][1].at]>>

\* C23: a call of getCachedTranscription leaves the 'transcriptionCache' item as it
\* was, and an entry stays in the store, whatever its age and whether or not it was
\* reported absent, as the latest put for its fingerprint wrote it.
C23_GetLeavesStore ==
  /\ [][got' # << >> => localStorage' = localStorage]_vars
  /\ [](\A h \in DOMAIN puts : puts[h] # << >> => HoldsLatestPut(h))

\* an entry more than 24 hours old was asked for, null came back, and the entry is
\* still in the store
C23_Witness ==
  /\ got # << >> /\ got[1].value = << >>
  /\ puts[got[1].fileHash] # << >>
  /\ now - puts[got[1].fileHash][1].at > 86400000
  /\ Lookup(ParseCache(localStorage), got[1].fileHash) # << >>

\* C24: a call of cacheTranscriptionResult leaves, under its fingerprint, the new result
\* with the time of the call, whatever was there before (nothing, a fresh entry, an
\* expired one), and leaves what is stored under every other fingerprint as it was.
C24_PutOverwrites ==
  [][\A h \in DOMAIN puts :
       puts'[h] # puts[h] =>
         /\ Lookup(ParseCache(localStorage'), h) =
              <<[result |-> puts'[h][1].result, timestamp |-> now]>>
         /\ \A k \in DOMAIN puts \ {h} :
              Lookup(ParseCache(localStorage'), k) = Lookup(ParseCache(localStorage), k)]_vars

\* a put at 1 ms replaced a fresh entry, and the other fingerprint's entry, stored at
\* 0 ms, is still there
C24_Witness ==
  \E h, k \in DOMAIN puts :
    /\ h # k /\ puts[h] # << >> /\ puts[k] # << >>
    /\ puts[h][1].found = "fresh" /\ puts[h][1].at = 1 /\ puts[k][1].at = 0
    /\ Lookup(ParseCache(localStorage), h) =
         <<[result |-> puts[h][1].result, timestamp |-> 1]>>
    /\ Lookup(ParseCache(localStorage), k) =
         <<[result |-> puts[k][1].result, timestamp |-> 0]>>

----------------------------------------------------------------------------
(* The words of the emitted blocks *)

\* a token of a block's text that is a word, not a blank or a mark
IsWord(t) == t \notin {" ", ".", ",", "?", "!"}

RECURSIVE Spoken(_)
\* the contents of the pronunciation items, in input order
Spoken(items) ==
  IF items = << >> THEN << >>
  ELSE (IF Head(items).type = "pronunciation" THEN <<Head(items).content>> ELSE << >>)
         \o Spoken(Tail(items))

RECURSIVE BlockWords(_)
\* the words of the blocks' texts, in output order
BlockWords(blocks) ==
  IF blocks = << >> THEN << >>
  ELSE SelectSeq(Head(blocks).text, IsWord) \o BlockWords(Tail(blocks))

\* every pronunciation item carries a start and an end time
AllTimed(items) ==
  \A k \in Pronunciations(items) :
    Truthy(items[k].start_time) /\ Truthy(items[k].end_time)

\* C25: when every pronunciation item carries both times, the words of the returned
\* blocks are the contents of the pronunciation items, each once and in input order,
\* wherever the punctuation items stand.
C25_NoWordLost ==
  (cpc = "returned" /\ transcriptData.hasResults /\ transcriptData.hasTranscripts
     /\ Pronunciations(ItemsOf(transcriptData)) # {} /\ AllTimed(ItemsOf(transcriptData))) =>
    BlockWords(returned[1]) = Spoken(ItemsOf(transcriptData))

----------------------------------------------------------------------------
(* The uploader and the page *)

\* how many files are handed to onFileSelected at most
MaxSelections == 2

\* acceptedFileTypes' default
AcceptedFileTypes == {"audio/mp3", "audio/wav", "audio/mpeg", "audio/m4a"}

\* maxFileSizeMB * 1024 * 1024 with the default maxFileSizeMB = 100
MaxFileSize == 100 * 1024 * 1024

\* the files the user drops or picks: accepted and other types, sizes around the limit
UiFiles ==
  [type : {"audio/mp3", "audio/wav", "audio/mpeg", "audio/m4a", "video/mp4", ""},
   size : {0, MaxFileSize, MaxFileSize + 1}]

validateFile(f) == f.type \in AcceptedFileTypes /\ ~(f.size > MaxFileSize)

\* {!selectedFile ? <drop zone with the file input> : <card>}
DropZoneShown(sel) == sel = << >>

\* variant: the Remove button is rendered whether or not isLoading
RemoveShownWhileLoading(sel, isLoading) == sel # << >>

\* {isLoading ? <overlay> : <button onClick={handleRemoveFile}>}, inside the card
RemoveShown(sel, isLoading) == sel # << >> /\ ~isLoading

restOfUi ==
  <<retryVars, runVars, envVars, caller, convVars, cacheVars, now, fmtVars, calls, reruns>>

InitUi == Quiet /\ NoCache /\ NoFormat /\ NoCalls /\ NoUi

\* if (validateFile(file)) { setSelectedFile(file); onFileSelected(file) }, where
\* onFileSelected is the page's handleFileSelected: setIsProcessing(true) and a call of
\* transcribeAudio that is left pending
Accept(f) ==
  IF validateFile(f)
  THEN /\ selectedFile' = <<f>>
       /\ isProcessing' = TRUE
       /\ pending' = pending + 1
       /\ handed' = Append(handed, f)
  ELSE UNCHANGED <<selectedFile, isProcessing, pending, handed>>

\* handleDragOver / handleDragLeave on the drop zone
Drag(over) ==
  /\ DropZoneShown(selectedFile)
  /\ isDragging' = over
  /\ UNCHANGED <<selectedFile, isProcessing, pending, handed, restOfUi>>

\* handleDrop on the drop zone
Drop(f) ==
  /\ DropZoneShown(selectedFile)
  /\ Len(handed) < MaxSelections
  /\ isDragging' = FALSE
  /\ Accept(f)
  /\ UNCHANGED restOfUi

\* handleFileChange of the file input, which is part of the drop zone
FilePick(f) ==
  /\ DropZoneShown(selectedFile)
  /\ Len(handed) < MaxSelections
  /\ Accept(f)
  /\ UNCHANGED <<isDragging, restOfUi>>

\* handleRemoveFile, by the Remove button
RemoveFile ==
  /\ RemoveShown(selectedFile, isProcessing)
  /\ selectedFile' = << >>
  /\ UNCHANGED <<isDragging, isProcessing, pending, handed, restOfUi>>

\* a pending transcribeAudio settles: handleFileSelected's finally runs
RunSettles ==
  /\ pending > 0
  /\ pending' = pending - 1
  /\ isProcessing' = FALSE
  /\ UNCHANGED <<selectedFile, isDragging, handed, restOfUi>>

NextUi ==
  \/ \E over \in BOOLEAN : Drag(over)
  \/ \E f \in UiFiles : Drop(f)
  \/ \E f \in UiFiles : FilePick(f)
  \/ RemoveFile
  \/ RunSettles

SpecUi == InitUi /\ [][NextUi]_vars

\* C26: at most one call of transcribeAudio is pending at any time, a call starts only
\* when none is pending, and every file handed to onFileSelected has an accepted type
\* and a size of at most 100 MB.
C26_OneRunInFlight ==
  /\ pending <= 1
  /\ (pending = 1) = isProcessing
  /\ pending = 1 => selectedFile # << >>
  /\ \A k \in 1..Len(handed) :
       /\ handed[k].type \in {"audio/mp3", "audio/wav", "audio/mpeg", "audio/m4a"}
       /\ handed[k].size <= 104857600

\* a second file was handed over after the first run settled and its file was removed,
\* and its run is pending
C26_Witness == Len(handed) = 2 /\ pending = 1 /\ selectedFile = <<handed[2]>>

====
